---- MODULE Spec2Model ----
(***************************************************************************)
(* Model of the `#[sealed]` attribute macro (src/src/lib.rs).              *)
(*                                                                         *)
(* The macro is a pure function from (attribute arguments, annotated item) *)
(* to a token stream.  The state machine is a source file whose annotated  *)
(* items are expanded one after the other, as the compiler does: `pending` *)
(* holds the invocations still to expand, `expanded` the invocations       *)
(* already expanded together with the token stream each one produced.      *)
(*                                                                         *)
(* Identifiers are records [raw, sym] where sym is the sequence of the     *)
(* identifier's characters, so that the snake-casing of heck and the       *)
(* raw-identifier stripping of syn are computed, not assumed.              *)
(***************************************************************************)
EXTENDS Integers, Sequences, FiniteSets, TLC

VARIABLES pending, expanded

vars == <<pending, expanded>>

---------------------------------------------------------------------------
(* Bounds of the explored input space.                                     *)

MaxIdentLen == 3
MaxGenerics == 3
MaxPrefix == 1

---------------------------------------------------------------------------
(* Characters and identifiers.                                             *)

UpperChars == {"X", "T"}
LowerChars == {"a"}
DigitChars == {"1"}
IdentChars == UpperChars \cup LowerChars \cup DigitChars \cup {"_"}

is_uppercase(c) == c \in {"X", "T", "S", "M"}
is_lowercase(c) == c \in {"a", "x", "t", "r", "s", "m", "e", "l", "d"}
is_alphanumeric(c) == is_uppercase(c) \/ is_lowercase(c) \/ c \in DigitChars

to_lowercase_char(c) ==
    CASE c = "X" -> "x"
      [] c = "T" -> "t"
      [] c = "S" -> "s"
      [] c = "M" -> "m"
      [] OTHER -> c

to_lowercase(w) == [k \in 1..Len(w) |-> to_lowercase_char(w[k])]

\* syn::Ident as the pair (raw flag, symbol); r#X is [raw |-> TRUE, sym |-> X].
Ident(raw, sym) == [raw |-> raw, sym |-> sym]

\* the mutant of unraw: the identifier is passed on with its r# escaping
unraw_kept(ident) == ident

\* syn::ext::IdentExt::unraw
unraw(ident) == [raw |-> FALSE, sym |-> ident.sym]

\* <Ident as Display>::to_string
ident_to_string(ident) ==
    IF ident.raw THEN <<"r", "#">> \o ident.sym ELSE ident.sym

\* the comparison `erased == TRAIT_ERASURE_ARG_IDENT` of Ident with &str
TRAIT_ERASURE_ARG_IDENT == <<"e", "r", "a", "s", "e">>

---------------------------------------------------------------------------
(* heck::SnakeCase::to_snake_case, as called by seal_name.                 *)

\* the words of a string: maximal runs of alphanumerics and underscores
\* that hold at least one alphanumeric character
RECURSIVE split_words(_, _, _)
split_words(s, cur, acc) ==
    LET flush == IF \E k \in 1..Len(cur) : is_alphanumeric(cur[k])
                 THEN Append(acc, cur) ELSE acc
    IN  IF s = <<>> THEN flush
        ELSE IF is_alphanumeric(Head(s)) \/ Head(s) = "_"
             THEN split_words(Tail(s), Append(cur, Head(s)), acc)
             ELSE split_words(Tail(s), <<>>, flush)

with_word(out, first_word, w) ==
    (IF first_word THEN out ELSE Append(out, "_")) \o to_lowercase(w)

\* the scan of one word: `init` is the start of the current sub-word,
\* `mode` the case of the characters seen since
RECURSIVE transform_word(_, _, _, _, _, _)
transform_word(word, i, init, mode, first_word, out) ==
    IF i > Len(word) THEN [out |-> out, first_word |-> first_word]
    ELSE LET c == word[i] IN
      IF c = "_"
      THEN transform_word(word, i + 1, IF init = i THEN init + 1 ELSE init,
                          mode, first_word, out)
      ELSE IF i < Len(word)
      THEN LET next == word[i + 1]
               next_mode == IF is_lowercase(c) THEN "Lowercase"
                            ELSE IF is_uppercase(c) THEN "Uppercase"
                            ELSE mode
           IN  IF next = "_" \/ (next_mode = "Lowercase" /\ is_uppercase(next))
               THEN transform_word(word, i + 1, i + 1, "Boundary", FALSE,
                        with_word(out, first_word, SubSeq(word, init, i)))
               ELSE IF mode = "Uppercase" /\ is_uppercase(c) /\ is_lowercase(next)
               THEN transform_word(word, i + 1, i, "Boundary", FALSE,
                        with_word(out, first_word, SubSeq(word, init, i - 1)))
               ELSE transform_word(word, i + 1, init, next_mode, first_word, out)
      ELSE [out |-> with_word(out, first_word, SubSeq(word, init, Len(word))),
            first_word |-> FALSE]

RECURSIVE transform_words(_, _, _)
transform_words(words, first_word, out) ==
    IF words = <<>> THEN out
    ELSE LET r == transform_word(Head(words), 1, 1, "Boundary", first_word, out)
         IN  transform_words(Tail(words), r.first_word, r.out)

to_snake_case(s) == transform_words(split_words(s, <<>>, <<>>), TRUE, <<>>)

SEAL_PREFIX == <<"_", "_", "s", "e", "a", "l", "_">>

\* fn seal_name
seal_name(seal) ==
    Ident(FALSE, SEAL_PREFIX \o to_snake_case(ident_to_string(seal)))

---------------------------------------------------------------------------
(* The syntax tree: generic parameters, paths, items.                      *)

\* syn::GenericParam; `ty` is the type of a const parameter
GenericParam(kind, ident, bounds, default, ty) ==
    [kind |-> kind, ident |-> ident, bounds |-> bounds,
     default |-> default, ty |-> ty]

\* syn::GenericArgument
GenericArgument(kind, text) == [kind |-> kind, text |-> text]

\* syn::PathSegment; no arguments (PathArguments::None) is <<>>
PathSegment(ident, arguments) == [ident |-> ident, arguments |-> arguments]

\* syn::Path
Path(leading_colon, segments) ==
    [leading_colon |-> leading_colon, segments |-> segments]

SealedIdent == Ident(FALSE, <<"S", "e", "a", "l", "e", "d">>)

\* Generics::lifetimes, Generics::type_params, Generics::const_params
lifetimes(generics) == SelectSeq(generics, LAMBDA p : p.kind = "lifetime")
type_params(generics) == SelectSeq(generics, LAMBDA p : p.kind = "type")
const_params(generics) == SelectSeq(generics, LAMBDA p : p.kind = "const")
non_lifetimes(generics) == SelectSeq(generics, LAMBDA p : p.kind # "lifetime")

\* <Generics as ToTokens>: the parameters in full, lifetimes printed first;
\* the where clause is not part of it
generics_to_tokens(generics) == lifetimes(generics) \o non_lifetimes(generics)

\* Generics::split_for_impl().0, <ImplGenerics as ToTokens>: lifetimes
\* first, every parameter with its bounds, defaults left off
impl_generics_to_tokens(generics) ==
    LET ps == lifetimes(generics) \o non_lifetimes(generics)
    IN  [k \in 1..Len(ps) |-> [ps[k] EXCEPT !.default = <<>>]]

---------------------------------------------------------------------------
(* fn parse_sealed_trait                                                   *)

\* a mutant of supertrait_arguments: every parameter is passed on
supertrait_arguments_all(trait_generics) ==
    [k \in 1..Len(trait_generics) |->
        GenericArgument(trait_generics[k].kind, trait_generics[k].ident)]

\* the arguments of the appended supertrait: the type parameters' names
supertrait_arguments(trait_generics) ==
    LET tps == type_params(trait_generics)
    IN  [k \in 1..Len(tps) |-> GenericArgument("type", tps[k].ident)]

\* a mutant of erased_type_param: the declared bounds survive the erasure
erased_type_param_bounded(p) ==
    GenericParam("type", p.ident, p.bounds \o <<"?Sized">>, <<>>, "")

\* parse_quote!( #ident : ?Sized )
erased_type_param(p) == GenericParam("type", p.ident, <<"?Sized">>, <<>>, "")

\* the generic parameter list of `Sealed` in erasure mode
erased_generics(trait_generics) ==
    LET tps == type_params(trait_generics)
    IN  lifetimes(trait_generics)
        \o [k \in 1..Len(tps) |-> erased_type_param(tps[k])]
        \o const_params(trait_generics)

\* the marker trait of the companion module
sealed_marker(generics) ==
    [kind |-> "trait", vis |-> "pub", ident |-> SealedIdent,
     generics |-> generics, supertraits |-> <<>>, body |-> <<>>]

\* the two quote! blocks of parse_sealed_trait
quote_trait(seal, content, item_trait) ==
    << [kind |-> "mod", attrs |-> <<"automatically_derived">>,
        vis |-> "pub(crate)", ident |-> seal, content |-> content],
       item_trait >>

parse_sealed_trait(item_trait, erase) ==
    LET trait_ident == unraw(item_trait.ident)
        trait_generics == item_trait.generics
        seal == seal_name(trait_ident)
        bound == Path(FALSE,
                   << PathSegment(seal, <<>>),
                      PathSegment(SealedIdent,
                                  supertrait_arguments(trait_generics)) >>)
        sealed_trait == [item_trait EXCEPT !.supertraits = Append(@, bound)]
    IN  IF erase
        THEN quote_trait(seal,
                 << sealed_marker(erased_generics(trait_generics)) >>,
                 sealed_trait)
        ELSE quote_trait(seal,
                 << [kind |-> "use", tree |-> "super::*"],
                    sealed_marker(generics_to_tokens(trait_generics)) >>,
                 sealed_trait)

---------------------------------------------------------------------------
(* fn parse_sealed_impl                                                    *)

\* a mutant of sealed_path_of: the path prefix is lost
sealed_path_no_prefix(segments) ==
    LET last == segments[Len(segments)]
    IN  << PathSegment(seal_name(unraw(last.ident)), <<>>),
           PathSegment(SealedIdent, <<>>) >>

\* the segments of the marker's path: pop the last one, push seal and Sealed
sealed_path_of(segments) ==
    LET last == segments[Len(segments)]
        popped == SubSeq(segments, 1, Len(segments) - 1)
        seal == seal_name(unraw(last.ident))
    IN  Append(Append(popped, PathSegment(seal, <<>>)),
               PathSegment(SealedIdent, <<>>))

\* a mutant of quote_impl: the original block before the generated one
quote_impl_swapped(trait_generics, sealed_path, arguments, self_type, where_clauses, item_impl) ==
    << item_impl,
       [kind |-> "impl", attrs |-> <<"automatically_derived">>,
        generics |-> trait_generics,
        trait_ |-> << Path(FALSE,
            [sealed_path EXCEPT ![Len(sealed_path)].arguments = arguments]) >>,
        self_ty |-> self_type, where_clause |-> where_clauses,
        body |-> <<>>] >>

\* the quote! block of parse_sealed_impl; `#sealed_path #arguments` reads
\* as the path whose last segment carries the arguments
quote_impl(trait_generics, sealed_path, arguments, self_type, where_clauses, item_impl) ==
    << [kind |-> "impl", attrs |-> <<"automatically_derived">>,
        generics |-> trait_generics,
        trait_ |-> << Path(FALSE,
            [sealed_path EXCEPT ![Len(sealed_path)].arguments = arguments]) >>,
        self_ty |-> self_type, where_clause |-> where_clauses,
        body |-> <<>>],
       item_impl >>

Ok(ts) == [ok |-> TRUE, ts |-> ts, message |-> ""]
Err(message) == [ok |-> FALSE, ts |-> <<>>, message |-> message]

parse_sealed_impl(item_impl) ==
    IF item_impl.trait_ = <<>>
    THEN Err("missing implentation trait")
    ELSE LET impl_trait == item_impl.trait_[1]
             segments == impl_trait.segments
             arguments == segments[Len(segments)].arguments
             sealed_path == sealed_path_of(segments)
             self_type == item_impl.self_ty
             trait_generics == impl_generics_to_tokens(item_impl.generics)
             where_clauses == item_impl.where_clause
         IN  Ok(quote_impl(trait_generics, sealed_path, arguments, self_type,
                           where_clauses, item_impl))

---------------------------------------------------------------------------
(* fn parse_sealed and the entry point `sealed`                            *)

\* a mutant of parse_sealed: an unsupported item is passed through
parse_sealed_lenient(item, erase) ==
    CASE item.kind = "impl" ->
            IF item.trait_ = <<>> THEN Ok(<<item>>) ELSE parse_sealed_impl(item)
      [] item.kind = "trait" -> Ok(parse_sealed_trait(item, erase))
      [] OTHER -> Ok(<<item>>)

parse_sealed(item, erase) ==
    CASE item.kind = "impl" -> parse_sealed_impl(item)
      [] item.kind = "trait" -> Ok(parse_sealed_trait(item, erase))
      [] OTHER -> Err("expected impl or trait")

\* syn::Error::to_compile_error
to_compile_error(message) ==
    << [kind |-> "compile_error", message |-> message] >>

\* format!("The only accepted argument is `{}`.", TRAIT_ERASURE_ARG_IDENT)
InvalidArgumentMessage == "The only accepted argument is erase."

\* a mutant of is_erase_ident: any argument selects the erasure mode
is_erase_ident_any(erased) == TRUE

\* `erased == TRAIT_ERASURE_ARG_IDENT`, <Ident as PartialEq<str>>
is_erase_ident(erased) == ident_to_string(erased) = TRAIT_ERASURE_ARG_IDENT

\* the attribute macro; `args` is Option<syn::Ident>, <<>> for None
sealed(args, input) ==
    IF args # <<>>
    THEN IF is_erase_ident(args[1])
         THEN LET r == parse_sealed(input, TRUE)
              IN  IF r.ok THEN r.ts ELSE to_compile_error(r.message)
         ELSE to_compile_error(InvalidArgumentMessage)
    ELSE LET r == parse_sealed(input, FALSE)
         IN  IF r.ok THEN r.ts ELSE to_compile_error(r.message)

---------------------------------------------------------------------------
(* The inputs: the items a source file can carry under `#[sealed]`.        *)

RECURSIVE SeqsUpTo(_, _)
SeqsUpTo(S, n) ==
    IF n = 0 THEN {<<>>}
    ELSE LET shorter == SeqsUpTo(S, n - 1)
         IN  shorter \cup {Append(s, x) : s \in shorter, x \in S}

\* the symbols of identifiers: no leading digit, and not the lone underscore
Syms ==
    {s \in SeqsUpTo(IdentChars, MaxIdentLen) :
        /\ s # <<>>
        /\ s[1] \notin DigitChars
        /\ s # <<"_">>}

LifetimeA == GenericParam("lifetime", "'a", <<>>, <<>>, "")
TypeT == GenericParam("type", "T", <<"Bound">>, <<>>, "")
TypeU == GenericParam("type", "U", <<>>, <<"u8">>, "")
TypeV == GenericParam("type", "V", <<"Send", "Sync">>, <<>>, "")
ConstN == GenericParam("const", "N", <<>>, <<>>, "usize")

\* a parameter list the compiler accepts: no parameter twice, lifetimes
\* first, parameters with a default last
WellFormedGenerics(g) ==
    /\ \A j, k \in 1..Len(g) : j # k => g[j].ident # g[k].ident
    /\ \A j, k \in 1..Len(g) :
          (j < k /\ g[k].kind = "lifetime") => g[j].kind = "lifetime"
    /\ \A j, k \in 1..Len(g) :
          (j < k /\ g[j].default # <<>>) => g[k].default # <<>>

TraitGenerics ==
    {g \in SeqsUpTo({LifetimeA, TypeT, TypeU, ConstN}, MaxGenerics) :
        WellFormedGenerics(g)}

ImplGenerics ==
    {g \in SeqsUpTo({LifetimeA, TypeT, TypeV, ConstN}, MaxGenerics) :
        WellFormedGenerics(g)}

ModM == Ident(FALSE, <<"m">>)
SuperKw == Ident(FALSE, <<"s">>)

Prefixes ==
    SeqsUpTo({PathSegment(ModM, <<>>), PathSegment(SuperKw, <<>>)}, MaxPrefix)

EraseIdent == Ident(FALSE, TRAIT_ERASURE_ARG_IDENT)

\* the attribute's arguments: none, erase, r#erase, another identifier
MacroArgs ==
    { <<>>, <<EraseIdent>>, <<Ident(TRUE, TRAIT_ERASURE_ARG_IDENT)>>,
      <<Ident(FALSE, <<"e", "r", "a", "s", "e", "d">>)>> }

ItemTrait(ident, generics, supertraits) ==
    [kind |-> "trait", vis |-> "pub", ident |-> ident, generics |-> generics,
     supertraits |-> supertraits, body |-> <<"fn f(&self);">>]

ItemImpl(generics, trait_, self_ty, where_clause) ==
    [kind |-> "impl", attrs |-> <<>>, generics |-> generics,
     trait_ |-> trait_, self_ty |-> self_ty, where_clause |-> where_clause,
     body |-> <<"fn f(&self) {}">>]

OtherItems ==
    { [kind |-> "fn", ident |-> Ident(FALSE, <<"a">>)],
      [kind |-> "struct", ident |-> Ident(FALSE, <<"X">>)] }

Invocation(args, item) == [args |-> args, item |-> item]

\* the argument an implementation passes for a parameter of the trait
argument_for(p) ==
    CASE p.kind = "lifetime" -> GenericArgument("lifetime", "'static")
      [] p.kind = "type" -> GenericArgument("type", "u8")
      [] p.kind = "const" -> GenericArgument("const", "3")

arguments_for(generics) ==
    [k \in 1..Len(generics) |-> argument_for(generics[k])]

DebugBound ==
    Path(FALSE, <<PathSegment(Ident(FALSE, <<"T", "a">>), <<>>)>>)

\* a trait and an implementation of it, the name written raw or not at
\* either place
NamingFiles ==
    { << Invocation(<<>>, ItemTrait(Ident(r1, sym), <<>>, <<>>)),
         Invocation(<<>>,
            ItemImpl(<<>>,
                     <<Path(FALSE,
                        Append(prefix, PathSegment(Ident(r2, sym), arguments)))>>,
                     "Wrapper", <<>>)) >> :
        sym \in Syms, r1 \in BOOLEAN, r2 \in BOOLEAN, prefix \in Prefixes,
        arguments \in {<<>>, <<GenericArgument("type", "u8")>>} }

TraitName == Ident(FALSE, <<"X", "a">>)

\* a generic trait, and an implementation that passes one argument for
\* each of its parameters
GenericTraitFiles ==
    { << Invocation(args, ItemTrait(TraitName, generics, supertraits)),
         Invocation(<<>>,
            ItemImpl(<<>>,
                     <<Path(FALSE,
                        <<PathSegment(TraitName, arguments_for(generics))>>)>>,
                     "Wrapper", <<>>)) >> :
        args \in MacroArgs, generics \in TraitGenerics,
        supertraits \in {<<>>, <<DebugBound>>} }

\* an implementation block alone: trait implementations and inherent ones
ImplFiles ==
    { << Invocation(args,
            ItemImpl(generics, trait_, self_ty, where_clause)) >> :
        args \in MacroArgs, generics \in ImplGenerics,
        trait_ \in
            {<<>>}
            \cup {<<Path(leading, Append(prefix, PathSegment(TraitName, arguments)))>> :
                    leading \in BOOLEAN, prefix \in Prefixes,
                    arguments \in {<<>>, <<GenericArgument("type", "u8"),
                                           GenericArgument("const", "3")>>}},
        self_ty \in {"Wrapper<T>"},
        where_clause \in {<<>>, <<"T: Send">>} }

\* an item of another kind
OtherFiles ==
    { << Invocation(args, item) >> : args \in MacroArgs, item \in OtherItems }

SourceFiles ==
    NamingFiles \cup GenericTraitFiles \cup ImplFiles \cup OtherFiles

---------------------------------------------------------------------------
(* The state machine: the annotated items of a file, expanded in order.    *)

Init ==
    /\ pending \in SourceFiles
    /\ expanded = <<>>

\* one invocation of the attribute macro on the next annotated item
Expand ==
    /\ pending # <<>>
    /\ expanded' = Append(expanded,
          [args |-> Head(pending).args,
           input |-> Head(pending).item,
           output |-> sealed(Head(pending).args, Head(pending).item)])
    /\ pending' = Tail(pending)

Next == Expand

Spec == Init /\ [][Next]_vars

---------------------------------------------------------------------------
(* Reading the expansions.                                                 *)

Expansions == {expanded[k] : k \in 1..Len(expanded)}

Failed(e) == \E k \in 1..Len(e.output) : e.output[k].kind = "compile_error"

TraitExpansions == {e \in Expansions : e.input.kind = "trait" /\ ~Failed(e)}

ImplExpansions == {e \in Expansions : e.input.kind = "impl" /\ ~Failed(e)}

\* the marker trait inside the companion module of a trait expansion
MarkerOf(e) == e.output[1].content[Len(e.output[1].content)]

\* the supertrait reference appended to the declaration of a trait expansion
SealBoundOf(e) == e.output[2].supertraits[Len(e.output[2].supertraits)]

LastSegment(path) == path.segments[Len(path.segments)]

\* the path the generated implementation of an impl expansion implements
SealedPathOf(e) == e.output[1].trait_[1]

Idents(generics) == [k \in 1..Len(generics) |-> generics[k].ident]

ValidArgs(e) == e.args = <<>> \/ e.args = <<EraseIdent>>

\* where a piece of code that names the companion module can be located
Sites == {"defining module", "other module of the crate", "other crate"}

\* the places from which an item of the given visibility, declared in the
\* defining module, can be named
can_name(vis, site) ==
    CASE vis = "pub" -> TRUE
      [] vis = "pub(crate)" -> site # "other crate"
      [] OTHER -> site = "defining module"

---------------------------------------------------------------------------
(* The claims.                                                             *)

\* C1: the companion module of a sealed trait can be named only from inside
\* the module that declares the trait, neither from another module of the
\* crate nor from another crate.
C1_CompanionOnlyInsideModule ==
    \A e \in TraitExpansions : \A site \in Sites :
        ( /\ can_name(e.output[1].vis, site)
          /\ can_name(MarkerOf(e).vis, site) )
        => site = "defining module"

\* C2: for a trait named X and an implementation block whose trait path
\* ends in X, the companion identifier of the trait expansion and the one
\* of the impl expansion are the same text, also when one of the two writes
\* X as r#X.
C2_NamesAgree ==
    \A t \in TraitExpansions : \A i \in ImplExpansions :
        t.input.ident.sym = LastSegment(i.input.trait_[1]).ident.sym
        => LET segments == SealedPathOf(i).segments
           IN  ident_to_string(t.output[1].ident)
                 = ident_to_string(segments[Len(segments) - 1].ident)

C2_Witness ==
    \E t \in TraitExpansions : \E i \in ImplExpansions :
        /\ t.input.ident.sym = LastSegment(i.input.trait_[1]).ident.sym
        /\ t.input.ident.raw /\ ~LastSegment(i.input.trait_[1]).ident.raw
        /\ Len(i.input.trait_[1].segments) > 1
        /\ LastSegment(i.input.trait_[1]).arguments # <<>>
        /\ t.input.ident.sym = <<"X", "T", "a">>
        /\ t.output[1].ident.sym = SEAL_PREFIX \o <<"x", "_", "t", "a">>

\* C3: the generated marker implementation lists the parameters the block
\* introduces by name only, their inline bounds dropped; the where clause
\* is carried over and the body is empty.
C3_ImplBoundsDropped ==
    \A e \in ImplExpansions :
        LET generated == e.output[1]
        IN  /\ Idents(generated.generics) = Idents(e.input.generics)
            /\ \A k \in 1..Len(generated.generics) :
                  generated.generics[k].bounds = <<>>
            /\ generated.where_clause = e.input.where_clause
            /\ generated.body = <<>>

\* C4: in standard mode the marker trait has the parameter list of the
\* declaration; in erasure mode each type parameter has the single bound
\* ?Sized in place of its bounds, lifetimes and const parameters are as
\* declared, and no parameter is added or lost.
C4_GenericFidelity ==
    \A e \in TraitExpansions :
        LET declared == e.input.generics
            marker == MarkerOf(e).generics
        IN  IF e.args = <<>>
            THEN marker = declared
            ELSE /\ Len(marker) = Len(declared)
                 /\ \A p \in {declared[k] : k \in 1..Len(declared)} :
                       \E k \in 1..Len(marker) :
                          IF p.kind = "type"
                          THEN /\ marker[k].kind = "type"
                               /\ marker[k].ident = p.ident
                               /\ marker[k].bounds = <<"?Sized">>
                          ELSE marker[k] = p

C4_Witness ==
    \E e \in TraitExpansions :
        /\ e.args = <<EraseIdent>>
        /\ e.input.generics = <<LifetimeA, TypeT, ConstN>>
        /\ MarkerOf(e).generics =
              << LifetimeA, GenericParam("type", "T", <<"?Sized">>, <<>>, ""),
                 ConstN >>

\* C5: in both modes the parameters of the marker trait are in the order
\* of the declaration's parameter list, also when const and type
\* parameters are interleaved.
C5_OrderPreserved ==
    \A e \in TraitExpansions :
        Idents(MarkerOf(e).generics) = Idents(e.input.generics)

\* C6: on a trait, no argument gives the standard-mode output and the
\* argument erase the erasure-mode output; any other identifier gives the
\* InvalidArgument diagnostic alone, whatever the item.
C6_ArgumentValidation ==
    \A e \in Expansions :
        /\ (e.input.kind = "trait" /\ e.args = <<>>)
              => e.output = parse_sealed_trait(e.input, FALSE)
        /\ (e.input.kind = "trait" /\ e.args = <<EraseIdent>>)
              => e.output = parse_sealed_trait(e.input, TRUE)
        /\ ~ValidArgs(e)
              => e.output = << [kind |-> "compile_error",
                                message |-> InvalidArgumentMessage] >>

C6_Witness ==
    \E e \in Expansions :
        /\ e.input.kind = "trait"
        /\ e.args = <<Ident(TRUE, TRAIT_ERASURE_ARG_IDENT)>>
        /\ e.input.generics # <<>>
        /\ Failed(e)

MatchingImpls(t) ==
    {i \in ImplExpansions :
        /\ LastSegment(i.input.trait_[1]).ident = t.input.ident
        /\ Len(LastSegment(i.input.trait_[1]).arguments)
              = Len(t.input.generics)}

\* C10, as claimed: the appended supertrait reference passes one argument
\* for each parameter the marker trait declares, at the same position, so
\* that it passes as many as a matching reference at an impl site.
C10_OneArgumentPerParameter ==
    \A t \in TraitExpansions :
        LET passed == LastSegment(SealBoundOf(t)).arguments
            declared == MarkerOf(t).generics
        IN  /\ Len(passed) = Len(declared)
            /\ \A k \in 1..Len(passed) : passed[k].text = declared[k].ident
            /\ \A i \in MatchingImpls(t) :
                  Len(LastSegment(SealedPathOf(i)).arguments) = Len(passed)

\* C10, amended: the appended supertrait reference passes one argument for
\* each type parameter the marker trait declares, in their order, and none
\* for a lifetime or const parameter; it passes as many arguments as a
\* matching reference at an impl site when the trait declares type
\* parameters only.
C10_OneArgumentPerTypeParameter ==
    \A t \in TraitExpansions :
        LET passed == LastSegment(SealBoundOf(t)).arguments
            declared == MarkerOf(t).generics
        IN  /\ [k \in 1..Len(passed) |-> passed[k].text]
                  = Idents(type_params(declared))
            /\ \A k \in 1..Len(passed) : passed[k].kind = "type"
            /\ (\A k \in 1..Len(declared) : declared[k].kind = "type")
                  => \A i \in MatchingImpls(t) :
                        Len(LastSegment(SealedPathOf(i)).arguments)
                           = Len(passed)

C10_Witness ==
    \E t \in TraitExpansions :
        /\ t.input.generics = <<LifetimeA, ConstN, TypeT>>
        /\ Len(LastSegment(SealBoundOf(t)).arguments) = 1
        /\ Len(MarkerOf(t).generics) = 3
        /\ MatchingImpls(t) # {}

====
